---- MODULE Spec2Model ----
(***************************************************************************)
(* embedmd: the directive scanner (process and its parsing states), the   *)
(* argument parser (fields, parseArgs), the extractor (extract) and the   *)
(* command line driver (embed, processFile), modelled from the sources.   *)
(*                                                                         *)
(* Byte strings are sequences of one-character strings; Go's half-open,   *)
(* zero-based slices s[lo:hi] are written Slice(s, lo, hi).  A *string is *)
(* a sequence of length at most one: <<>> is nil, <<s>> points to s.  An  *)
(* error is a sequence of message parts, outermost wrapper first; <<>> is *)
(* the nil error.                                                          *)
(***************************************************************************)
EXTENDS Integers, Sequences, FiniteSets, TLC

VARIABLES
    paths,      \* embed: the path arguments
    rewrite,    \* embed: the -w flag
    disk,       \* the markdown files openFile can open, by path
    stdin,      \* bytes waiting on standard input
    stdout,     \* bytes written to standard output so far
    pc,         \* position of embed: "embed", "process", "return", "done"
    cur,        \* index in paths of the file being processed
    orig,       \* bytes handed to the running process call
    input,      \* countingScanner: bytes not yet scanned
    text,       \* countingScanner: s.Text()
    line,       \* countingScanner: s.line
    state,      \* process: the parsingState to run next
    buf,        \* processFile: the bytes.Buffer process writes to
    perr,       \* process: the error it returned
    result,     \* embed: the error it returned
    trace,      \* history: what the states wrote and fetched, in order
    pass,       \* TestRunTwice: 1 in the first run, 2 in the second
    first,      \* TestRunTwice: what the first run printed
    call,       \* a function called on its own: its argument
    ret,        \* a function called on its own: what it returned
    doDiff,     \* embed: the -d flag
    foundDiff,  \* embed: whether it reports that a difference was found
    status      \* main: the exit status

vars == <<paths, rewrite, disk, stdin, stdout, pc, cur, orig, input, text,
          line, state, buf, perr, result, trace, pass, first, call, ret,
          doDiff, foundDiff, status>>

-----------------------------------------------------------------------------
(* Bounds of the model *)

\* lines of a document on standard input
MaxLines == 4
\* path arguments given to embed
MaxPaths == 2
\* tokens of an argument text handed to parseArgs on its own
MaxToks == 4
\* bytes of a source handed to extract on its own
MaxSrc == 3

-----------------------------------------------------------------------------
(* Strings *)

LF == "\n"
CR == "\r"

Slice(s, lo, hi) == SubSeq(s, lo + 1, hi)

HasPrefix(s, p) == Len(s) >= Len(p) /\ SubSeq(s, 1, Len(p)) = p

\* strings.IndexByte: zero-based index of the first c in s, -1 if none
IndexByte(s, c) ==
    IF \E i \in 1..Len(s) : s[i] = c
    THEN (CHOOSE i \in 1..Len(s) : s[i] = c /\ \A j \in 1..(i - 1) : s[j] # c) - 1
    ELSE -1

IsSpace(c) == c \in {" ", "\t", LF, CR}

\* TrimSpace leaving the blanks
TrimSpaceNone(s) == s

\* strings.TrimSpace
TrimSpace(s) ==
    LET keep == {i \in 1..Len(s) : ~IsSpace(s[i])}
    IN  IF keep = {} THEN <<>>
        ELSE SubSeq(s, CHOOSE i \in keep : \A j \in keep : i <= j,
                       CHOOSE i \in keep : \A j \in keep : i >= j)

\* strings.Split(s, "#")[1]: the text between the first and the second '#'
SplitHash1(s) ==
    LET rest == Slice(s, IndexByte(s, "#") + 1, Len(s))
        nxt  == IndexByte(rest, "#")
    IN  IF nxt < 0 THEN rest ELSE Slice(rest, 0, nxt)

RECURSIVE Concat(_)
Concat(ss) == IF ss = <<>> THEN <<>> ELSE Head(ss) \o Concat(Tail(ss))

-----------------------------------------------------------------------------
(* The words of the documents *)

Marker == <<"[", "e", "m", "b", "e", "d", "m", "d", "]", ":", "#">>
\* the byte 0x60 (a backquote), which a TLA+ string cannot hold
BQ == "bq"

Fence  == <<BQ, BQ, BQ>>


-----------------------------------------------------------------------------
(* filepath.Ext, fields, parseArgs *)

\* filepath.Ext: the suffix from the last '.' of the last path element
Ext(path) ==
    LET dots == {i \in 1..Len(path) :
                    path[i] = "." /\ \A j \in i..Len(path) : path[j] # "/"}
    IN  IF dots = {} THEN <<>>
        ELSE SubSeq(path, CHOOSE i \in dots : \A j \in dots : i >= j, Len(path))

RECURSIVE fieldsLoop(_, _)
fieldsLoop(args, s0) ==
    LET s == TrimSpace(s0) IN
    IF Len(s) = 0 THEN [args |-> args, err |-> <<>>]
    ELSE IF s[1] = "/"
    THEN LET sep == IndexByte(Slice(s, 1, Len(s)), "/") IN
         IF sep < 0 THEN [args |-> <<>>, err |-> <<"unbalanced /">>]
         ELSE fieldsLoop(Append(args, Slice(s, 0, sep + 2)), Slice(s, sep + 2, Len(s)))
    ELSE LET sep == IndexByte(Slice(s, 1, Len(s)), " ") IN
         IF sep < 0 THEN [args |-> Append(args, s), err |-> <<>>]
         ELSE fieldsLoop(Append(args, Slice(s, 0, sep + 1)), Slice(s, sep + 1, Len(s)))

fields(s) == fieldsLoop(<<>>, s)

ArgsError(msg) ==
    [file |-> <<>>, lang |-> <<>>, start |-> <<>>, end |-> <<>>, err |-> <<msg>>]

\* the extension of the file name as parseArgs takes it
ExtOfFile(file) == Ext(Slice(file, 1, Len(file)))

NoBounds == [start |-> <<>>, end |-> <<>>, err |-> <<>>]

\* argsSwitch taking a single boundary expression for the end
argsSwitchEndOnly(args) ==
    IF Len(args) = 1 THEN [NoBounds EXCEPT !.end = <<args[1]>>]
    ELSE IF Len(args) = 2 THEN [NoBounds EXCEPT !.start = <<args[1]>>, !.end = <<args[2]>>]
    ELSE IF Len(args) > 2 THEN [NoBounds EXCEPT !.err = <<"too many arguments">>]
    ELSE NoBounds

\* argsSwitch letting a third boundary expression pass
argsSwitchThree(args) ==
    IF Len(args) = 1 THEN [NoBounds EXCEPT !.start = <<args[1]>>]
    ELSE IF Len(args) \in {2, 3}
    THEN [NoBounds EXCEPT !.start = <<args[1]>>, !.end = <<args[2]>>]
    ELSE IF Len(args) > 3 THEN [NoBounds EXCEPT !.err = <<"too many arguments">>]
    ELSE NoBounds

\* the switch of parseArgs on the arguments left after the file name and the
\* language
argsSwitch(args) ==
    IF Len(args) = 1 THEN [NoBounds EXCEPT !.start = <<args[1]>>]
    ELSE IF Len(args) = 2 THEN [NoBounds EXCEPT !.start = <<args[1]>>, !.end = <<args[2]>>]
    ELSE IF Len(args) > 2 THEN [NoBounds EXCEPT !.err = <<"too many arguments">>]
    ELSE NoBounds

parseArgs(s0) ==
    LET s == TrimSpace(s0) IN
    IF Len(s) < 2 \/ s[1] # "(" \/ s[Len(s)] # ")"
    THEN ArgsError("argument list should be in parenthesis")
    ELSE
    LET f == fields(Slice(s, 1, Len(s) - 1)) IN
    IF f.err # <<>> THEN ArgsError(f.err[1])
    ELSE IF Len(f.args) = 0 THEN ArgsError("missing file name")
    ELSE
    LET file     == f.args[1]
        args1    == Tail(f.args)
        explicit == Len(args1) > 0 /\ args1[1][1] # "/"
        ext      == ExtOfFile(file)
        lang     == IF explicit THEN args1[1] ELSE Slice(ext, 1, Len(ext))
        args2    == IF explicit THEN Tail(args1) ELSE args1
    IN
    IF ~explicit /\ Len(ext) = 0
    THEN ArgsError("language is required when file has no extension")
    ELSE IF argsSwitch(args2).err # <<>> THEN ArgsError(argsSwitch(args2).err[1])
    ELSE [file  |-> file,
          lang  |-> lang,
          start |-> argsSwitch(args2).start,
          end   |-> argsSwitch(args2).end,
          err   |-> <<>>]

-----------------------------------------------------------------------------
(* regexp: the part of Go's syntax the documents use.  A pattern is a     *)
(* sequence of atoms: a literal byte, an escaped byte, or '.', each with  *)
(* an optional '*'.  FindIndex is leftmost-first with greedy stars, as a  *)
(* backtracking matcher finds it.  Any other operator of the syntax is    *)
(* outside the model and is refused here like a malformed pattern.        *)

ReMeta == {"(", ")", "[", "]", "{", "}", "+", "?", "|", "^", "$"}

ReLetter == {"a", "b", "c", "d", "e", "f", "g", "m", "o", "t", "x", "y"}

RECURSIVE reParse(_, _)
reParse(p, atoms) ==
    IF Len(p) = 0 THEN [ok |-> TRUE, atoms |-> atoms]
    ELSE IF p[1] = "\\"
    THEN IF Len(p) = 1 \/ p[2] \in ReLetter \ {"n"}
         THEN [ok |-> FALSE, atoms |-> <<>>]
         ELSE reParse(SubSeq(p, 3, Len(p)),
                      Append(atoms, [any |-> FALSE,
                                     c |-> IF p[2] = "n" THEN LF ELSE p[2],
                                     star |-> FALSE]))
    ELSE IF p[1] = "*"
    THEN IF Len(atoms) = 0 \/ atoms[Len(atoms)].star
         THEN [ok |-> FALSE, atoms |-> <<>>]
         ELSE reParse(Tail(p), [atoms EXCEPT ![Len(atoms)].star = TRUE])
    ELSE IF p[1] \in ReMeta THEN [ok |-> FALSE, atoms |-> <<>>]
    ELSE reParse(Tail(p), Append(atoms, [any |-> p[1] = ".", c |-> p[1], star |-> FALSE]))

\* regexp.Compile
Compile(p) == reParse(p, <<>>)

AtomMatches(a, ch) == IF a.any THEN ch # LF ELSE ch = a.c

RECURSIVE matchHere(_, _, _, _)

\* the end (zero-based, exclusive) of the preferred match of atoms[k..] at
\* offset i of b, or -1; a star takes the longest run that lets the rest match
matchHere(atoms, k, b, i) ==
    IF k > Len(atoms) THEN i
    ELSE IF atoms[k].star
    THEN LET runs == {n \in 0..(Len(b) - i) :
                         /\ \A j \in 1..n : AtomMatches(atoms[k], b[i + j])
                         /\ matchHere(atoms, k + 1, b, i + n) >= 0}
         IN  IF runs = {} THEN -1
             ELSE matchHere(atoms, k + 1, b, i + CHOOSE n \in runs : \A m \in runs : n >= m)
    ELSE IF i < Len(b) /\ AtomMatches(atoms[k], b[i + 1])
    THEN matchHere(atoms, k + 1, b, i + 1)
    ELSE -1

\* Regexp.FindIndex: <<lo, hi>> of the leftmost match, <<>> if there is none
FindIndex(atoms, b) ==
    LET at == {i \in 0..Len(b) : matchHere(atoms, 1, b, i) >= 0} IN
    IF at = {} THEN <<>>
    ELSE LET lo == CHOOSE i \in at : \A j \in at : i <= j
         IN  <<lo, matchHere(atoms, 1, b, lo)>>

-----------------------------------------------------------------------------
(* extract *)

\* match without the test for the slashes
matchUnchecked(b, s) ==
    LET re == Compile(Slice(s, 1, Len(s) - 1)) IN
    IF ~re.ok THEN [loc |-> <<>>, err |-> <<"error parsing regexp">>]
    ELSE IF FindIndex(re.atoms, b) = <<>> THEN [loc |-> <<>>, err |-> <<"could not match">>]
    ELSE [loc |-> FindIndex(re.atoms, b), err |-> <<>>]

\* the closure match of extract, applied to the bytes b it captured
match(b, s) ==
    IF Len(s) <= 2 \/ s[1] # "/" \/ s[Len(s)] # "/"
    THEN [loc |-> <<>>, err |-> <<"missing slashes (/) around">>]
    ELSE LET re == Compile(Slice(s, 1, Len(s) - 1)) IN
         IF ~re.ok THEN [loc |-> <<>>, err |-> <<"error parsing regexp">>]
         ELSE LET loc == FindIndex(re.atoms, b) IN
              IF loc = <<>> THEN [loc |-> <<>>, err |-> <<"could not match">>]
              ELSE [loc |-> loc, err |-> <<>>]

\* extractEnd cutting where the end match begins
extractEndBefore(b, end) ==
    IF end[1] # <<"$">>
    THEN LET m == match(b, end[1]) IN
         IF m.err # <<>> THEN [b |-> <<>>, err |-> m.err]
         ELSE [b |-> Slice(b, 0, m.loc[1]), err |-> <<>>]
    ELSE [b |-> b, err |-> <<>>]

\* the second half of extract: b is already cut at the start match
extractEnd(b, end) ==
    IF end[1] # <<"$">>
    THEN LET m == match(b, end[1]) IN
         IF m.err # <<>> THEN [b |-> <<>>, err |-> m.err]
         ELSE [b |-> Slice(b, 0, m.loc[2]), err |-> <<>>]
    ELSE [b |-> b, err |-> <<>>]

\* startOnly returning the rest of the source
startOnlyRest(b, loc) == Slice(b, loc[1], Len(b))

\* extract without end: return b[loc[0]:loc[1]]
startOnly(b, loc) == Slice(b, loc[1], loc[2])

\* fromStart leaving the source whole
fromStartWhole(b, loc) == b

\* extract with end: b = b[loc[0]:]
fromStart(b, loc) == Slice(b, loc[1], Len(b))

\* extract returning nothing
extractNothing(b, start, end) == [b |-> <<>>, err |-> <<>>]

\* extract(b, start, end); dereferencing a nil start or end panics
extract(b, start, end) ==
    IF start = <<>> /\ end = <<>> THEN [b |-> b, err |-> <<>>]
    ELSE IF start = <<>> THEN [b |-> <<>>, err |-> <<"panic: nil pointer dereference">>]
    ELSE IF start[1] # <<>>
    THEN LET m == match(b, start[1]) IN
         IF m.err # <<>> THEN [b |-> <<>>, err |-> m.err]
         ELSE IF end = <<>> THEN [b |-> startOnly(b, m.loc), err |-> <<>>]
         ELSE extractEnd(fromStart(b, m.loc), end)
    ELSE IF end = <<>> THEN [b |-> <<>>, err |-> <<"panic: nil pointer dereference">>]
    ELSE extractEnd(b, end)

-----------------------------------------------------------------------------
(* The sources the directives name: readFile and httpGet are package      *)
(* variables that the tests replace by lookups in tables like these.      *)

AGo == <<"a", ".", "g", "o">>
EGo == <<"e", ".", "g", "o">>
FGo == <<"f", ".", "g", "o">>
BGo == <<"b", ".", "g", "o">>
HTTP == <<"h", "t", "t", "p", ":", "/", "/">>
HTTPS == <<"h", "t", "t", "p", "s", ":", "/", "/">>
UGo == HTTP \o <<"u", ".", "g", "o">>
VGo == HTTP \o <<"v", ".", "g", "o">>

\* a.go has no final newline, e.go is empty, f.go holds a fence line
SourceFiles ==
    (AGo :> <<"x", LF, "y">>) @@ (EGo :> <<>>) @@ (FGo :> Fence \o <<LF>>)

SourceURLs == (UGo :> <<"x", LF>>)

readFile(path) ==
    IF path \in DOMAIN SourceFiles
    THEN [b |-> SourceFiles[path], err |-> <<>>]
    ELSE [b |-> <<>>, err |-> <<"file does not exist">>]

httpGet(path) ==
    IF path \in DOMAIN SourceURLs
    THEN [b |-> SourceURLs[path], err |-> <<>>]
    ELSE [b |-> <<>>, err |-> <<"status Not Found">>]

readContents(path) ==
    IF ~HasPrefix(path, HTTP) /\ ~HasPrefix(path, HTTPS)
    THEN readFile(path)
    ELSE httpGet(path)

-----------------------------------------------------------------------------
(* extractFromFile *)

\* EnsureNewline without the appended newline
EnsureNewlineNever(b) == b

\* the bytes written between the fences
EnsureNewline(b) ==
    IF Len(b) > 0 /\ b[Len(b)] # LF THEN Append(b, LF) ELSE b

\* extractFromFile once the content is extracted: the fenced block
writeBlock(a, x) ==
    IF x.err # <<>>
    THEN [w |-> <<>>, err |-> <<"could not extract content from">> \o x.err,
          file |-> a.file, lang |-> a.lang, b |-> <<>>,
          steps |-> <<"parse", "fetch", "extract">>]
    ELSE [w     |-> Fence \o a.lang \o <<LF>> \o EnsureNewline(x.b) \o Fence \o <<LF>>,
          err   |-> <<>>,
          file  |-> a.file,
          lang  |-> a.lang,
          b     |-> x.b,
          steps |-> <<"parse", "fetch", "extract", "write">>]

\* extractFromFile once the content is read
extractContents(a, r) ==
    IF r.err # <<>>
    THEN [w |-> <<>>, err |-> <<"could not read">> \o r.err, file |-> a.file,
          lang |-> a.lang, b |-> <<>>, steps |-> <<"parse", "fetch">>]
    ELSE writeBlock(a, extract(r.b, a.start, a.end))

\* readParsed fetching whatever parseArgs returned
readParsedEager(a) == extractContents(a, readContents(a.file))

\* extractFromFile once the arguments are parsed
readParsed(a) ==
    IF a.err # <<>>
    THEN [w |-> <<>>, err |-> a.err, file |-> <<>>, lang |-> <<>>, b |-> <<>>,
          steps |-> <<"parse">>]
    ELSE extractContents(a, readContents(a.file))

\* what extractFromFile(w, args) writes to w (field w), the error it
\* returns, and the steps it went through: parse, fetch, extract, write
extractFromFile(args) == readParsed(parseArgs(args))

-----------------------------------------------------------------------------
(* countingScanner over bufio.ScanLines *)

\* bufio's dropCR
dropCR(s) == IF Len(s) > 0 /\ s[Len(s)] = CR THEN SubSeq(s, 1, Len(s) - 1) ELSE s

\* Scan without the count of the lines
ScanUncounted(inp, ln) ==
    IF Len(inp) = 0
    THEN [ok |-> FALSE, text |-> <<>>, rest |-> <<>>, line |-> ln]
    ELSE IF IndexByte(inp, LF) >= 0
    THEN [ok |-> TRUE, text |-> dropCR(Slice(inp, 0, IndexByte(inp, LF))),
          rest |-> Slice(inp, IndexByte(inp, LF) + 1, Len(inp)), line |-> ln]
    ELSE [ok |-> TRUE, text |-> dropCR(inp), rest |-> <<>>, line |-> ln]

\* countingScanner.Scan on the unread bytes inp with s.line = ln
Scan(inp, ln) ==
    IF Len(inp) = 0
    THEN [ok |-> FALSE, text |-> <<>>, rest |-> <<>>, line |-> ln]
    ELSE LET i == IndexByte(inp, LF) IN
         IF i >= 0
         THEN [ok |-> TRUE, text |-> dropCR(Slice(inp, 0, i)),
               rest |-> Slice(inp, i + 1, Len(inp)), line |-> ln + 1]
         ELSE [ok |-> TRUE, text |-> dropCR(inp), rest |-> <<>>, line |-> ln + 1]

\* all the lines Scan yields from inp, in order
RECURSIVE ScanAll(_)
ScanAll(inp) ==
    LET sc == Scan(inp, 0) IN
    IF sc.ok THEN <<sc.text>> \o ScanAll(sc.rest) ELSE <<>>

-----------------------------------------------------------------------------
(* The documents *)

Directive(args) == Marker \o <<" ", "(">> \o args \o <<")">>

TextLine == <<"t">>
DirA     == Directive(AGo)
DirF     == Directive(FGo)
DirOpen  == Marker \o <<" ", "(">> \o AGo
DirE     == Directive(EGo)
DirB     == Directive(BGo)
DirX     == Directive(AGo \o <<" ", "/", "x", "/">>)
DirZ     == Directive(AGo \o <<" ", "/", "z", "/">>)
DirU     == Directive(UGo)
DirV     == Directive(VGo)
\* a directive whose arguments hold a second '#': (a.go /#/)
DirHash  == Directive(AGo \o <<" ", "/", "#", "/">>)

\* the lines a document on standard input is made of
StdinLines == {TextLine, Fence, DirA, DirF, DirOpen}

\* a document: its lines, each ended by eol, the last one by last
Document(lines, eol, last) ==
    Concat([i \in 1..Len(lines) |->
               lines[i] \o (IF i = Len(lines) THEN last ELSE eol)])

SeqsUpTo(S, n) == UNION {[1..k -> S] : k \in 0..n}

StdinDocs ==
    {Document(ls, e[1], e[2]) :
        ls \in SeqsUpTo(StdinLines, MaxLines),
        e \in {<<<<LF>>, <<LF>>>>, <<<<CR, LF>>, <<CR, LF>>>>, <<<<LF>>, <<>>>>}}

Lines(ls) == Document(ls, <<LF>>, <<LF>>)

\* the markdown files on disk hold one of these
DiskDocs ==
    { Lines(<<TextLine>>),
      Lines(<<TextLine, DirE, TextLine, DirA, TextLine, DirU>>),
      Lines(<<TextLine, DirB>>),
      Lines(<<TextLine, Fence, TextLine, Fence, TextLine, DirOpen, TextLine>>),
      Lines(<<TextLine, DirZ, TextLine>>),
      Lines(<<TextLine, DirX, Fence \o <<"g", "o">>, TextLine, Fence, TextLine,
              Fence, DirA, Fence>>),
      Lines(<<TextLine, DirU, DirV>>),
      Lines(<<TextLine, DirU, TextLine, DirV>>),
      Lines(<<TextLine, Fence, TextLine, Fence, Fence, TextLine, Fence>>),
      Lines(<<Fence, TextLine, Fence, TextLine, Fence, TextLine, Fence>>),
      Lines(<<TextLine, DirHash>>),
      Lines(<<TextLine, DirE, Fence, TextLine, TextLine, Fence>>) }

FMd  == <<"f", ".", "m", "d">>
GMd  == <<"g", ".", "m", "d">>
MMd  == <<"m", ".", "m", "d">>
NTxt == <<"n", ".", "t", "x", "t">>

\* m.md is not on disk
PathNames == {FMd, GMd, MMd, NTxt}

NoDisk == [p \in {} |-> <<>>]

-----------------------------------------------------------------------------
(* State *)

NoErr == [line |-> 0, err |-> <<>>]
NoResult == [path |-> <<>>, line |-> 0, err |-> <<>>]

St(fn, print) == [fn |-> fn, print |-> print]
StStart == St("start", FALSE)
StNil   == St("nil", FALSE)

Idle ==
    /\ orig = <<>> /\ input = <<>> /\ text = <<>> /\ line = 0
    /\ state = StNil /\ buf = <<>> /\ perr = NoErr /\ result = NoResult
    /\ trace = <<>>

NoCall == call = <<>> /\ ret = <<>>

\* without -d: nothing is compared, and the exit status is not yet set
NoDiff == doDiff = FALSE /\ foundDiff = FALSE /\ status = 0

Init ==
    /\ pc = "embed"
    /\ cur = 1
    /\ stdout = <<>>
    /\ pass = 1
    /\ first = <<>>
    /\ rewrite \in BOOLEAN
    /\ \/ /\ paths = <<>>
          /\ stdin \in StdinDocs
          /\ disk = NoDisk
       \/ /\ paths \in SeqsUpTo(PathNames, MaxPaths) \ {<<>>}
          /\ stdin = <<>>
          /\ disk \in {d @@ (NTxt :> Lines(<<TextLine>>)) : d \in [{FMd, GMd} -> DiskDocs]}
    /\ Idle
    /\ NoDiff
    /\ NoCall

\* the writer process was given: os.Stdout without paths and without -d, a
\* buffer otherwise
Out == IF paths = <<>> /\ ~doDiff THEN stdout ELSE buf

\* Write putting the bytes on the writer twice
WriteTwice(bytes) ==
    IF paths = <<>> /\ ~doDiff
    THEN stdout' = stdout \o bytes \o bytes /\ buf' = buf
    ELSE buf' = buf \o bytes \o bytes /\ stdout' = stdout

\* Write keeping the output of standard input mode in the buffer
WriteBuffered(bytes) == buf' = buf \o bytes /\ stdout' = stdout

Write(bytes) ==
    IF paths = <<>> /\ ~doDiff
    THEN stdout' = stdout \o bytes /\ buf' = buf
    ELSE buf' = buf \o bytes /\ stdout' = stdout

Ev(k, n, s) == [k |-> k, n |-> n, s |-> s]

\* Dispatch entering every fenced block with print off
DispatchSilent(ln) ==
    IF HasPrefix(ln, Marker) THEN St("parsingCmd", FALSE)
    ELSE IF HasPrefix(ln, Fence) THEN St("codeParser.parse", FALSE)
    ELSE St("parsingText", FALSE)

\* the state a text state moves to on the line it has just scanned
Dispatch(ln) ==
    IF HasPrefix(ln, Marker) THEN St("parsingCmd", FALSE)
    ELSE IF HasPrefix(ln, Fence) THEN St("codeParser.parse", TRUE)
    ELSE St("parsingText", FALSE)

\* AfterCmd keeping the block that follows the directive
AfterCmdKeep(ln) == St("parsingText", FALSE)

\* the state parsingCmd moves to on the line after the directive
AfterCmd(ln) ==
    IF HasPrefix(ln, Fence) THEN St("codeParser.parse", FALSE)
    ELSE St("parsingText", FALSE)

\* Failure counting lines from zero
FailureZeroBased(ln, e) == [line |-> ln - 1, err |-> e]

\* process wraps the error of a state: fmt.Errorf("%d: %v", s.line, err)
Failure(ln, e) == [line |-> ln, err |-> e]

\* CmdOutput printing the directive line without its newline
CmdOutputNoNewline(ln, w) == ln \o w

\* parsingCmd writes the directive line, then extractFromFile writes w
CmdOutput(ln, w) == ln \o <<LF>> \o w

\* Continue going back to parsingText after an error
ContinueOnError(st, e) ==
    /\ state' = IF e # NoErr THEN St("parsingText", FALSE) ELSE st
    /\ perr' = e
    /\ pc' = IF st = StNil /\ e = NoErr THEN "return" ELSE "process"

\* the loop of process: run the next state, or return when it is nil
Continue(st, e) ==
    /\ state' = st
    /\ perr' = e
    /\ pc' = IF st = StNil THEN "return" ELSE "process"

Frame ==
    UNCHANGED <<paths, rewrite, disk, stdin, cur, orig, result, pass, first, call, ret,
                doDiff, foundDiff, status>>

-----------------------------------------------------------------------------
(* process and its states *)

\* process: the first Scan; an empty input returns at once
process ==
    /\ pc = "process" /\ state = StStart
    /\ LET sc == Scan(input, line) IN
       /\ input' = sc.rest /\ text' = sc.text /\ line' = sc.line
       /\ Continue(IF sc.ok THEN St("parsingText", FALSE) ELSE StNil, NoErr)
    /\ UNCHANGED <<stdout, buf, trace>>
    /\ Frame

parsingText ==
    /\ pc = "process" /\ state = St("parsingText", FALSE)
    /\ Write(text \o <<LF>>)
    /\ trace' = Append(trace, Ev("echo", line, text))
    /\ LET sc == Scan(input, line) IN
       /\ input' = sc.rest /\ text' = sc.text /\ line' = sc.line
       /\ Continue(IF sc.ok THEN Dispatch(sc.text) ELSE StNil, NoErr)
    /\ Frame

parsingCmd ==
    /\ pc = "process" /\ state = St("parsingCmd", FALSE)
    /\ LET x == extractFromFile(SplitHash1(text)) IN
       /\ Write(CmdOutput(text, x.w))
       /\ trace' = trace \o <<Ev("echo", line, text)>>
                         \o [i \in 1..Len(x.steps) |->
                                Ev(x.steps[i], line,
                                   IF x.steps[i] = "fetch" THEN x.file
                                   ELSE IF x.steps[i] = "write" THEN x.w
                                   ELSE IF x.steps[i] = "extract" THEN x.b
                                   ELSE SplitHash1(text))]
       /\ IF x.err # <<>>
          THEN /\ Continue(StNil, Failure(line, x.err))
               /\ UNCHANGED <<input, text, line>>
          ELSE LET sc == Scan(input, line) IN
               /\ input' = sc.rest /\ text' = sc.text /\ line' = sc.line
               /\ Continue(IF sc.ok THEN AfterCmd(sc.text) ELSE StNil, NoErr)
    /\ Frame

codeParser_parse ==
    /\ pc = "process" /\ state.fn = "codeParser.parse"
    /\ LET sc == Scan(input, line) IN
       IF ~sc.ok
       THEN /\ Write(IF state.print THEN text \o <<LF>> ELSE <<>>)
            /\ trace' = trace \o (IF state.print THEN <<Ev("echo", line, text)>> ELSE <<>>)
            /\ input' = sc.rest /\ text' = sc.text /\ line' = sc.line
            /\ Continue(StNil, Failure(sc.line, <<"unbalanced code section">>))
       ELSE IF ~HasPrefix(sc.text, Fence)
       THEN /\ Write(IF state.print THEN text \o <<LF>> ELSE <<>>)
            /\ trace' = trace \o (IF state.print THEN <<Ev("echo", line, text)>> ELSE <<>>)
            /\ input' = sc.rest /\ text' = sc.text /\ line' = sc.line
            /\ Continue(state, NoErr)
       ELSE LET sc2 == Scan(sc.rest, sc.line) IN
            /\ Write(IF state.print THEN text \o <<LF>> \o sc.text \o <<LF>> ELSE <<>>)
            /\ trace' = trace \o (IF state.print
                                  THEN <<Ev("echo", line, text), Ev("echo", sc.line, sc.text)>>
                                  ELSE <<>>)
            /\ input' = sc2.rest /\ text' = sc2.text /\ line' = sc2.line
            /\ Continue(IF sc2.ok THEN St("parsingText", FALSE) ELSE StNil, NoErr)
    /\ Frame

-----------------------------------------------------------------------------
(* embed and processFile *)

Result(path, e) == [path |-> path, line |-> e.line, err |-> e.err]

\* what the scanner and the buffer are when process is entered on bytes
Enter(bytes) ==
    /\ orig' = bytes /\ input' = bytes /\ text' = <<>> /\ line' = 0
    /\ state' = StStart /\ buf' = <<>> /\ perr' = NoErr /\ trace' = <<>>
    /\ pc' = "process"

\* embed up to the call of process or processFile, or to its return
embed ==
    /\ pc = "embed"
    /\ IF paths = <<>>
       THEN IF rewrite
            THEN /\ result' = Result(<<>>, [line |-> 0,
                        err |-> <<"error: cannot use -w with standard input">>])
                 /\ pc' = "done"
                 /\ UNCHANGED <<orig, input, text, line, state, buf, perr, trace>>
            ELSE /\ Enter(stdin)
                 /\ UNCHANGED result
       ELSE IF cur > Len(paths)
       THEN /\ result' = NoResult
            /\ pc' = "done"
            /\ UNCHANGED <<orig, input, text, line, state, buf, perr, trace>>
       ELSE /\ pc' = "processFile"
            /\ UNCHANGED <<result, orig, input, text, line, state, buf, perr, trace>>
    /\ UNCHANGED <<paths, rewrite, disk, stdin, stdout, cur, pass, first, call, ret,
                   doDiff, foundDiff, status>>

\* processFile up to the call of process
processFile ==
    /\ pc = "processFile"
    /\ IF Ext(paths[cur]) # <<".", "m", "d">>
       THEN /\ result' = Result(paths[cur], [line |-> 0, err |-> <<"not a markdown file">>])
            /\ pc' = "done"
            /\ UNCHANGED <<orig, input, text, line, state, buf, perr, trace>>
       ELSE IF paths[cur] \notin DOMAIN disk
       THEN /\ result' = Result(paths[cur], [line |-> 0, err |-> <<"could not open">>])
            /\ pc' = "done"
            /\ UNCHANGED <<orig, input, text, line, state, buf, perr, trace>>
       ELSE /\ Enter(disk[paths[cur]])
            /\ UNCHANGED result
    /\ UNCHANGED <<paths, rewrite, disk, stdin, stdout, cur, pass, first, call, ret,
                   doDiff, foundDiff, status>>

\* file.WriteAt(b, off) on a file that holds f
WriteAt(f, b, off) ==
    Slice(f, 0, off) \o b \o Slice(f, off + Len(b), Len(f))

\* Truncate leaving the file as long as it was
TruncateNone(f, n) == f

\* file.Truncate(n) on a file that holds f
Truncate(f, n) == Slice(f, 0, n)

\* return going on with the next path after a failure
returnContinue ==
    /\ pc = "return"
    /\ IF paths = <<>>
       THEN /\ result' = Result(<<>>, perr)
            /\ pc' = "done"
            /\ UNCHANGED <<disk, stdout, cur>>
       ELSE /\ IF perr # NoErr
               THEN result' = Result(paths[cur], perr) /\ UNCHANGED <<disk, stdout>>
               ELSE /\ IF rewrite
                       THEN /\ disk' = [disk EXCEPT ![paths[cur]] =
                                            Truncate(WriteAt(@, buf, 0), Len(buf))]
                            /\ stdout' = stdout
                       ELSE stdout' = stdout \o buf /\ disk' = disk
                    /\ UNCHANGED result
            /\ cur' = cur + 1
            /\ pc' = "embed"
    /\ UNCHANGED <<paths, rewrite, stdin, orig, input, text, line, state, buf, perr,
                   trace, pass, first, call, ret, doDiff, foundDiff, status>>

\* process has returned: the rest of processFile and embed's loop, or the
\* return of embed on standard input
return ==
    /\ pc = "return"
    /\ IF paths = <<>>
       THEN /\ result' = Result(<<>>, perr)
            /\ pc' = "done"
            /\ UNCHANGED <<disk, stdout, cur>>
       ELSE IF perr # NoErr
       THEN /\ result' = Result(paths[cur], perr)
            /\ pc' = "done"
            /\ UNCHANGED <<disk, stdout, cur>>
       ELSE /\ IF rewrite
               THEN /\ disk' = [disk EXCEPT ![paths[cur]] =
                                    Truncate(WriteAt(@, buf, 0), Len(buf))]
                    /\ stdout' = stdout
               ELSE stdout' = stdout \o buf /\ disk' = disk
            /\ cur' = cur + 1
            /\ pc' = "embed"
            /\ UNCHANGED result
    /\ UNCHANGED <<paths, rewrite, stdin, orig, input, text, line, state, buf, perr,
                   trace, pass, first, call, ret, doDiff, foundDiff, status>>

\* TestRunTwice: what a successful run printed is the standard input of a
\* second run
TestRunTwice ==
    /\ pc = "done" /\ pass = 1 /\ result = NoResult /\ ~rewrite /\ Len(paths) <= 1
    /\ pass' = 2
    /\ first' = stdout
    /\ stdin' = stdout
    /\ stdout' = <<>>
    /\ paths' = <<>>
    /\ cur' = 1
    /\ pc' = "embed"
    /\ orig' = <<>> /\ input' = <<>> /\ text' = <<>> /\ line' = 0
    /\ state' = StNil /\ buf' = <<>> /\ perr' = NoErr /\ trace' = <<>>
    /\ UNCHANGED <<rewrite, disk, result, call, ret, doDiff, foundDiff, status>>

Next ==
    \/ embed
    \/ processFile
    \/ process
    \/ parsingText
    \/ parsingCmd
    \/ codeParser_parse
    \/ return
    \/ TestRunTwice

Spec == Init /\ [][Next]_vars

-----------------------------------------------------------------------------
(* Vocabulary of the properties *)

\* the lines of the document the running process call was given
InLines == ScanAll(orig)

\* process has returned (its variables stay until the next call)
Returned == pc = "return"
Succeeded == Returned /\ perr = NoErr

Unbalanced == <<"unbalanced code section">>

\* the bytes an event of the trace put on the writer
EventBytes(e) ==
    IF e.k = "echo" THEN InLines[e.n] \o <<LF>>
    ELSE IF e.k = "write" THEN e.s
    ELSE <<>>

\* the bytes the first n events of the trace put on the writer
TraceBytes(n) == Concat([i \in 1..n |-> EventBytes(trace[i])])

\* the events of one kind, as indexes of the trace
Events(k) == {i \in 1..Len(trace) : trace[i].k = k}

\* the lines whose directive went through step k
LinesAt(k) == {trace[i].n : i \in Events(k)}

\* The document as section 4.3 reads it, line by line: "text", "cmd" (a
\* directive outside every fence), "open", "in", "close" (a fenced block no
\* directive produced), "oldopen", "oldin", "oldclose" (the block that
\* follows a directive line).
RECURSIVE Kinds(_, _)
Kinds(lines, mode) ==
    IF lines = <<>> THEN <<>>
    ELSE LET l == Head(lines) IN
         IF mode = "fence"
         THEN IF HasPrefix(l, Fence) THEN <<"close">> \o Kinds(Tail(lines), "text")
              ELSE <<"in">> \o Kinds(Tail(lines), "fence")
         ELSE IF mode = "oldfence"
         THEN IF HasPrefix(l, Fence) THEN <<"oldclose">> \o Kinds(Tail(lines), "text")
              ELSE <<"oldin">> \o Kinds(Tail(lines), "oldfence")
         ELSE IF HasPrefix(l, Marker) THEN <<"cmd">> \o Kinds(Tail(lines), "cmd")
         ELSE IF HasPrefix(l, Fence)
         THEN IF mode = "cmd" THEN <<"oldopen">> \o Kinds(Tail(lines), "oldfence")
              ELSE <<"open">> \o Kinds(Tail(lines), "fence")
         ELSE <<"text">> \o Kinds(Tail(lines), "text")

DocKinds == Kinds(InLines, "text")

\* the document ends inside a fenced block
EndsInFence ==
    /\ InLines # <<>>
    /\ DocKinds[Len(InLines)] \in {"open", "in", "oldopen", "oldin"}

NoDirectiveLine == \A i \in 1..Len(InLines) : ~HasPrefix(InLines[i], Marker)

-----------------------------------------------------------------------------
(* C1 *)

\* C1: idempotence.  When a run succeeds and prints O, a second run on O
\* with the same sources succeeds and prints exactly O.
C1_Idempotent ==
    (pass = 2 /\ pc = "done") => (result = NoResult /\ stdout = first)

-----------------------------------------------------------------------------
(* C2 *)

\* every line of the bytes is ended by a bare \n
BareLF(bytes) ==
    /\ bytes = <<>> \/ bytes[Len(bytes)] = LF
    /\ \A i \in 2..Len(bytes) : bytes[i] = LF => bytes[i - 1] # CR

-----------------------------------------------------------------------------
(* C3 *)

\* C3: a directive line inside a fenced block that no directive produced is
\* never executed, wherever the block begins: its arguments are not parsed.
C3_NestedNeverExecuted ==
    Returned => \A n \in LinesAt("parse") : DocKinds[n] # "in"

-----------------------------------------------------------------------------
(* C4 *)

\* the first line after k that starts with a fence (none: past the end)
CloseOf(k) ==
    LET later == {m \in (k + 1)..Len(InLines) : HasPrefix(InLines[m], Fence)}
    IN  IF later = {} THEN Len(InLines) + 1
        ELSE CHOOSE m \in later : \A o \in later : m <= o

\* line j belongs to the fenced block that opens right after an executed
\* directive
Replaced(j) ==
    \E d \in LinesAt("write") :
        /\ d < Len(InLines)
        /\ HasPrefix(InLines[d + 1], Fence)
        /\ d + 1 <= j /\ j <= CloseOf(d + 1)

\* C4: in a successful run a line is left out of the output exactly when it
\* belongs to the fenced block that opens on the line right after an executed
\* directive; every other line is printed once, unchanged and in order, and
\* the block of each executed directive is written exactly once.
C4_Replacement ==
    Succeeded =>
        /\ \A j \in 1..Len(InLines) :
              IF Replaced(j)
              THEN \A i \in Events("echo") : trace[i].n # j
              ELSE Cardinality({i \in Events("echo") : trace[i].n = j}) = 1
        /\ \A i, j \in Events("echo") : i < j => trace[i].n < trace[j].n
        /\ \A d \in LinesAt("write") :
              Cardinality({i \in Events("write") : trace[i].n = d}) = 1
        /\ Out = TraceBytes(Len(trace))

\* a run that left out an old block and printed another fenced block
C4_Witness ==
    /\ Succeeded
    /\ \E j \in 1..Len(InLines) : Replaced(j) /\ ~HasPrefix(InLines[j], Fence)
    /\ \E i \in Events("echo") : HasPrefix(InLines[trace[i].n], Fence)

-----------------------------------------------------------------------------
(* C5 *)

\* C5: when the document ends inside a fenced block (and no directive has
\* failed before), processing fails with "unbalanced code section" at the
\* number of the last line of the document.
C5_UnbalancedFails ==
    (Returned /\ EndsInFence /\ perr.err \in {<<>>, Unbalanced}) =>
        perr = [line |-> Len(InLines), err |-> Unbalanced]

-----------------------------------------------------------------------------
(* C6 *)

\* C6: in the output of a successful run every executed directive line stands
\* as it was in the input, and the next output line is the opening fence of
\* its block.
C6_DirectiveThenBlock ==
    Succeeded =>
        /\ Out = TraceBytes(Len(trace))
        /\ \A w \in Events("write") :
              \E e \in Events("echo") :
                  /\ e < w /\ trace[e].n = trace[w].n
                  /\ \A i \in (e + 1)..(w - 1) : trace[i].k \notin {"echo", "write"}
                  /\ HasPrefix(trace[w].s, Fence)
                  /\ HasPrefix(Slice(Out, Len(TraceBytes(e - 1)), Len(Out)),
                               InLines[trace[w].n] \o <<LF>> \o trace[w].s)

\* a successful run that executed a directive which was not the last line
C6_Witness ==
    /\ Succeeded
    /\ \E w \in Events("write") : trace[w].n > 1 /\ trace[w].n < Len(InLines)

-----------------------------------------------------------------------------
(* C7 *)

\* the language of the directive on line n, as its arguments give it
LangOf(n) == parseArgs(SplitHash1(InLines[n])).lang

\* the extracted bytes of the directive on line n
ExtractedOf(n) == trace[CHOOSE i \in Events("extract") : trace[i].n = n].s

\* C7: every generated block is the line ```<lang>, the extracted bytes, a
\* newline exactly when these are not empty and do not end with one, and the
\* line ```: the closing fence begins a line.
C7_BlockFormat ==
    \A w \in Events("write") :
        LET b  == ExtractedOf(trace[w].n)
            nl == IF b # <<>> /\ b[Len(b)] # LF THEN <<LF>> ELSE <<>>
            at == Len(TraceBytes(w - 1))
            blk == Fence \o LangOf(trace[w].n) \o <<LF>> \o b \o nl \o Fence \o <<LF>>
        IN  /\ HasPrefix(Slice(Out, at, Len(Out)), blk)
            /\ Out[at + Len(blk) - 4] = LF

\* one run wrote a block for empty bytes, one for bytes without a final
\* newline and one for bytes with it
C7_Witness ==
    /\ Succeeded
    /\ \E w \in Events("write") : ExtractedOf(trace[w].n) = <<>>
    /\ \E w \in Events("write") : ExtractedOf(trace[w].n) = <<"x", LF, "y">>
    /\ \E w \in Events("write") : ExtractedOf(trace[w].n) = <<"x", LF>>

-----------------------------------------------------------------------------
(* C8 *)

\* the lines read so far
LinesRead == Len(InLines) - Len(ScanAll(input))

\* C8: when a directive fails, processing stops and the error carries the
\* 1-based number of the directive's line, which is the number of input
\* lines read so far, lines inside fenced blocks included.
C8_ErrorLine ==
    (perr.err # <<>> /\ perr.err # Unbalanced) =>
        /\ state = StNil /\ pc \in {"return", "done"}
        /\ perr.line = LinesRead
        /\ perr.line \in 1..Len(InLines)
        /\ HasPrefix(InLines[perr.line], Marker)
        /\ trace[Len(trace)].n = perr.line
        /\ trace[Len(trace)].k # "write"

\* a malformed directive on line 6 fails after a fenced block was read, and
\* the line after it is left unread
C8_Witness ==
    /\ Returned
    /\ perr = [line |-> 6, err |-> <<"argument list should be in parenthesis">>]
    /\ HasPrefix(InLines[2], Fence) /\ HasPrefix(InLines[4], Fence)
    /\ Len(InLines) = 7

-----------------------------------------------------------------------------
(* C9 *)

Failed == pc = "done" /\ paths # <<>> /\ result.err # <<>>

\* C9 as stated: when processing one of several documents fails, the
\* documents after it are still processed and the run reports failure.
C9_LaterStillProcessed ==
    Failed => cur >= Len(paths)

\* C9 amended: when processing one of several documents fails, embed returns
\* at once with the error of that document, prefixed by its path; the
\* documents after it are not processed, and the run reports failure.
C9_StopsAtFirstFailure ==
    (paths # <<>> /\ result.err # <<>>) =>
        /\ pc = "done"
        /\ cur \in 1..Len(paths)
        /\ result.path = paths[cur]
        /\ ~ENABLED Next

\* the first of two documents fails and the second, which is on disk, is
\* not processed
C9_Witness ==
    /\ Failed
    /\ Len(paths) = 2 /\ cur = 1
    /\ paths[2] \in DOMAIN disk
    /\ perr.err # <<>>


-----------------------------------------------------------------------------
(* parseArgs called on its own, on argument texts built from a few fields *)

ArgFields ==
    { <<"a">>, <<"a", ".">>, AGo, <<"d", ".", "e", "/", "f">>, <<"g", "o">>,
      <<"/", "x", "/">>, <<"$">>, <<"/", "x">> }

RECURSIVE Join(_)
Join(fs) ==
    IF fs = <<>> THEN <<>>
    ELSE IF Len(fs) = 1 THEN fs[1]
    ELSE fs[1] \o <<" ">> \o Join(Tail(fs))

ArgTexts ==
    {w[1] \o Join(fs) \o w[2] :
        fs \in SeqsUpTo(ArgFields, MaxToks),
        w \in {<<<<"(">>, <<")">>>>, <<<<" ", "(">>, <<" ", ")", "\t">>>>,
               <<<<"(">>, <<>>>>, <<<<"{">>, <<"}">>>>}}

\* the argument text of the directive that embeds a multi-line comment:
\* (doc.go /\/\*/ /\*\//)
DocGo == <<"d", "o", "c", ".", "g", "o">>
CommentStart == <<"/", "\\", "/", "\\", "*", "/">>
CommentEnd   == <<"/", "\\", "*", "\\", "/", "/">>
DocGoText == <<"(">> \o DocGo \o <<" ">> \o CommentStart \o <<" ">> \o CommentEnd \o <<")">>

InitArgs ==
    /\ pc = "call" /\ cur = 1 /\ stdout = <<>> /\ pass = 1 /\ first = <<>>
    /\ rewrite = FALSE /\ paths = <<>> /\ stdin = <<>> /\ disk = NoDisk
    /\ Idle
    /\ NoDiff
    /\ call \in ArgTexts \cup {DocGoText}
    /\ ret = <<>>

parseArgsCall ==
    /\ pc = "call"
    /\ ret' = parseArgs(call)
    /\ pc' = "returned"
    /\ UNCHANGED <<paths, rewrite, disk, stdin, stdout, cur, orig, input, text, line,
                   state, buf, perr, result, trace, pass, first, call,
                   doDiff, foundDiff, status>>

NextArgs == parseArgsCall

SpecArgs == InitArgs /\ [][NextArgs]_vars

-----------------------------------------------------------------------------
(* C10 *)

\* C10: whenever parseArgs succeeds the language is not empty.
C10_LangNotEmpty ==
    (pc = "returned" /\ ret.err = <<>>) => ret.lang # <<>>

-----------------------------------------------------------------------------
(* C11 *)

\* C11: a boundary expression /.../ is kept as one field even when it holds
\* escaped slashes: (doc.go /\/\*/ /\*\//) parses to the path doc.go, the
\* language go, the start /\/\*/ and the end /\*\//.
C11_EscapedSlashes ==
    (pc = "returned" /\ call = DocGoText) =>
        ret = [file |-> DocGo, lang |-> <<"g", "o">>, start |-> <<CommentStart>>,
               end |-> <<CommentEnd>>, err |-> <<>>]

-----------------------------------------------------------------------------
(* C12 *)

Parenthesis == <<"argument list should be in parenthesis">>

\* the text is a parenthesised list with nothing but blanks around it
WellFormed(t) ==
    \E i, j \in 1..Len(t) :
        /\ i < j /\ t[i] = "(" /\ t[j] = ")"
        /\ \A k \in 1..(i - 1) : IsSpace(t[k])
        /\ \A k \in (j + 1)..Len(t) : IsSpace(t[k])

\* C12: parseArgs fails with "argument list should be in parenthesis" exactly
\* for the texts that, blanks around them set aside, do not both begin with
\* "(" and end with ")"; blanks around a well-formed list are accepted.
C12_Parenthesis ==
    pc = "returned" => (ret.err = Parenthesis <=> ~WellFormed(call))

\* a list with only its opening parenthesis is refused
C12_Witness ==
    /\ pc = "returned"
    /\ call = <<"(">> \o AGo
    /\ ret.err = Parenthesis

-----------------------------------------------------------------------------
(* C13 *)

\* C13: whenever parseArgs succeeds, an end boundary is present only if a
\* start boundary is present.
C13_EndOnlyWithStart ==
    (pc = "returned" /\ ret.err = <<>>) => (ret.end # <<>> => ret.start # <<>>)

\* a parse with one boundary expression: it is the start, and there is no end
C13_Witness ==
    /\ pc = "returned" /\ ret.err = <<>>
    /\ ret.start = <<<<"/", "x", "/">>>> /\ ret.end = <<>>

-----------------------------------------------------------------------------
(* C14 *)

TooMany == <<"too many arguments">>

\* the fields of a well-formed argument text
FieldsOf(t) == fields(Slice(TrimSpace(t), 1, Len(TrimSpace(t)) - 1))

\* the fields left after the path and the optional language
Remaining(t) ==
    LET a == Tail(FieldsOf(t).args)
    IN  IF a # <<>> /\ a[1][1] # "/" THEN Tail(a) ELSE a

\* the text splits into fields, the first of which is the path
HasPath(t) == WellFormed(t) /\ FieldsOf(t).err = <<>> /\ FieldsOf(t).args # <<>>

\* the language is given, or the path has an extension
HasLang(t) ==
    LET a == FieldsOf(t).args
    IN  (Len(a) > 1 /\ a[2][1] # "/") \/ ExtOfFile(a[1]) # <<>>

\* C14 as stated: parseArgs fails with "too many arguments" whenever more
\* than two fields remain after the path and the optional language.
C14_TooManyAlways ==
    (pc = "returned" /\ HasPath(call) /\ Len(Remaining(call)) > 2) =>
        ret.err = TooMany

\* C14 amended: when more than two fields remain after the path and the
\* optional language, parseArgs fails: with "language is required when file
\* has no extension" if no language is given and the path has no extension,
\* with "too many arguments" otherwise.  It never succeeds with more than two
\* boundary expressions.
C14_TooMany ==
    (pc = "returned" /\ HasPath(call) /\ Len(Remaining(call)) > 2) =>
        ret.err = IF HasLang(call) THEN TooMany
                  ELSE <<"language is required when file has no extension">>

\* three boundary expressions after a path with an extension
C14_Witness ==
    /\ pc = "returned"
    /\ HasPath(call) /\ Len(Remaining(call)) = 3
    /\ FieldsOf(call).args[1] = AGo
    /\ ret.err = TooMany

-----------------------------------------------------------------------------
(* extract called on its own, on short sources and a few boundary tokens *)

ExtractSources == SeqsUpTo({"x", "y", LF}, MaxSrc)

\* "", $, a word, //, patterns, a malformed pattern, an unclosed pattern
BoundTokens ==
    { <<>>, <<"$">>, <<"x">>, <<"/", "/">>, <<"/", "x", "/">>, <<"/", "y", "/">>,
      <<"/", "x", "y", "/">>, <<"/", "y", "*", "/">>, <<"/", ".", "*", "/">>,
      <<"/", "(", "/">>, <<"/", "x">> }

\* a *string: nil or a pointer to a token
Boundaries == {<<>>} \cup {<<t>> : t \in BoundTokens}

InitExtract ==
    /\ pc = "callExtract" /\ cur = 1 /\ stdout = <<>> /\ pass = 1 /\ first = <<>>
    /\ rewrite = FALSE /\ paths = <<>> /\ stdin = <<>> /\ disk = NoDisk
    /\ Idle
    /\ NoDiff
    /\ call \in [b : ExtractSources, start : Boundaries, end : Boundaries]
    /\ ret = <<>>

extractCall ==
    /\ pc = "callExtract"
    /\ ret' = extract(call.b, call.start, call.end)
    /\ pc' = "returnedExtract"
    /\ UNCHANGED <<paths, rewrite, disk, stdin, stdout, cur, orig, input, text, line,
                   state, buf, perr, result, trace, pass, first, call,
                   doDiff, foundDiff, status>>

NextExtract == extractCall

SpecExtract == InitExtract /\ [][NextExtract]_vars

\* the token is a pattern between slashes that compiles
IsPattern(t) ==
    /\ Len(t) > 2 /\ t[1] = "/" /\ t[Len(t)] = "/"
    /\ Compile(Slice(t, 1, Len(t) - 1)).ok

\* the first match of the pattern t in the bytes b: <<lo, hi>>, or <<>>
FirstMatch(t, b) == FindIndex(Compile(Slice(t, 1, Len(t) - 1)).atoms, b)

CouldNotMatch == <<"could not match">>
MissingSlashes == <<"missing slashes (/) around">>

-----------------------------------------------------------------------------
(* C15 *)

\* C15: with start present and end absent, extract returns exactly the text
\* of the first match of the start pattern, nothing after it; it fails with
\* "could not match" when the pattern matches nowhere, and it returns no
\* content for a start that is not a pattern.
C15_StartOnly ==
    (pc = "returnedExtract" /\ call.start # <<>> /\ call.end = <<>>) =>
        IF IsPattern(call.start[1])
        THEN LET m == FirstMatch(call.start[1], call.b) IN
             IF m = <<>> THEN ret.err = CouldNotMatch
             ELSE ret = [b |-> Slice(call.b, m[1], m[2]), err |-> <<>>]
        ELSE ret.err # <<>>

\* /x/ alone on the source yxy gives x
C15_Witness ==
    /\ pc = "returnedExtract"
    /\ call = [b |-> <<"y", "x", "y">>, start |-> <<<<"/", "x", "/">>>>, end |-> <<>>]
    /\ ret = [b |-> <<"x">>, err |-> <<>>]

-----------------------------------------------------------------------------
(* C16 *)

\* C16: with start and end present and the start pattern matching, the result
\* begins at the first byte of the first start match; it ends at the end of
\* the source when end is $, and otherwise at the end of the first match of
\* the end pattern searched from the first byte of the start match.
C16_StartToEnd ==
    (/\ pc = "returnedExtract" /\ call.start # <<>> /\ call.end # <<>>
     /\ IsPattern(call.start[1])
     /\ FirstMatch(call.start[1], call.b) # <<>>) =>
        LET lo   == FirstMatch(call.start[1], call.b)[1]
            rest == Slice(call.b, lo, Len(call.b))
        IN  IF call.end[1] = <<"$">> THEN ret = [b |-> rest, err |-> <<>>]
            ELSE IF IsPattern(call.end[1])
            THEN LET e == FirstMatch(call.end[1], rest) IN
                 IF e = <<>> THEN ret.err = CouldNotMatch
                 ELSE ret = [b |-> Slice(call.b, lo, lo + e[2]), err |-> <<>>]
            ELSE ret.err # <<>>

\* on the source yxy, from /x/ to /y/ is xy: the y before the x is not the end
C16_Witness ==
    /\ pc = "returnedExtract"
    /\ call = [b |-> <<"y", "x", "y">>, start |-> <<<<"/", "x", "/">>>>,
               end |-> <<<<"/", "y", "/">>>>]
    /\ ret = [b |-> <<"x", "y">>, err |-> <<>>]

-----------------------------------------------------------------------------
(* C17 *)

\* C17: a directive without boundary expressions embeds the whole content it
\* fetched, between a fence with the language of the extension and a fence.
C17_WholeFile ==
    \A w \in Events("write") :
        LET a == parseArgs(SplitHash1(InLines[trace[w].n]))
            c == readContents(a.file).b
        IN  (a.start = <<>> /\ a.end = <<>>) =>
                /\ ExtractedOf(trace[w].n) = c
                /\ trace[w].s = Fence \o Tail(Ext(a.file)) \o <<LF>>
                                 \o c \o (IF c # <<>> /\ c[Len(c)] # LF THEN <<LF>> ELSE <<>>)
                                 \o Fence \o <<LF>>

\* the directive (a.go) wrote the whole of a.go
C17_Witness ==
    /\ Succeeded
    /\ \E w \in Events("write") :
          /\ InLines[trace[w].n] = DirA
          /\ trace[w].s = Fence \o <<"g", "o", LF, "x", LF, "y", LF>> \o Fence \o <<LF>>

-----------------------------------------------------------------------------
(* C19, C20 *)

\* a fenced block opens on the line right after the close of another
Contiguous ==
    \E i \in 1..(Len(InLines) - 1) : DocKinds[i] = "close" /\ DocKinds[i + 1] = "open"

\* C19: the line right after a closing fence is dispatched like any other
\* line, so a document without directives that begins with a text line and
\* whose fenced blocks are all closed, contiguous ones included, is processed
\* without error and printed unchanged.
C19_AfterCloseDispatched ==
    (/\ Returned /\ NoDirectiveLine /\ InLines # <<>>
     /\ DocKinds[1] = "text" /\ ~EndsInFence) =>
        (perr = NoErr /\ Out = Lines(InLines))

\* C20: the first line is dispatched like any other line, so a document
\* without directives that begins with a fenced block and whose fenced blocks
\* are all closed and not contiguous is processed without error and printed
\* unchanged.
C20_FirstLineDispatched ==
    (/\ Returned /\ NoDirectiveLine /\ InLines # <<>>
     /\ DocKinds[1] = "open" /\ ~EndsInFence /\ ~Contiguous) =>
        (perr = NoErr /\ Out = Lines(InLines))

-----------------------------------------------------------------------------
(* C18 *)

Enclosed(t) == Len(t) >= 2 /\ t[1] = "/" /\ t[Len(t)] = "/"

\* start is a token, as fields yields them: present and not empty
StartToken == call.start # <<>> /\ call.start[1] # <<>>

\* the start pattern has matched and extract goes on to the end
StartPassed == IsPattern(call.start[1]) /\ FirstMatch(call.start[1], call.b) # <<>>

\* end is examined as a pattern
EndExamined == call.end # <<>> /\ call.end[1] # <<"$">>

\* C18 as stated: extract fails with "missing slashes (/) around" for every
\* boundary token that is not enclosed in slashes, $ as end excepted, and
\* only for such tokens: a token that begins and ends with a slash is a
\* pattern.
C18_OnlyUnenclosed ==
    (pc = "returnedExtract" /\ StartToken) =>
        (ret.err = MissingSlashes <=>
            \/ ~Enclosed(call.start[1])
            \/ /\ Len(call.start[1]) = 2 \/ StartPassed
               /\ EndExamined /\ ~Enclosed(call.end[1]))

\* C18 amended: extract fails with "missing slashes (/) around" for every
\* boundary token it examines that is not enclosed in slashes, $ as end
\* excepted, and for the two-byte token //; every longer token that begins
\* and ends with a slash is treated as a pattern.
C18_MissingSlashes ==
    (pc = "returnedExtract" /\ StartToken) =>
        (ret.err = MissingSlashes <=>
            \/ ~Enclosed(call.start[1]) \/ Len(call.start[1]) = 2
            \/ /\ StartPassed /\ EndExamined
               /\ ~Enclosed(call.end[1]) \/ Len(call.end[1]) = 2)

\* the word x as start is refused
C18_Witness ==
    /\ pc = "returnedExtract"
    /\ call.start = <<<<"x">>>>
    /\ ret.err = MissingSlashes

-----------------------------------------------------------------------------
(* C21 *)

\* C21: every line that starts with the marker and lies outside every fenced
\* block is executed, wherever it stands: in a successful run each such line
\* has had its arguments parsed and its block written.
C21_EveryDirectiveExecuted ==
    Succeeded =>
        \A n \in 1..Len(InLines) :
            DocKinds[n] = "cmd" => (n \in LinesAt("parse") /\ n \in LinesAt("write"))

-----------------------------------------------------------------------------
(* C22 *)

\* the whole of the line after the marker
AfterMarker(ln) == Slice(ln, Len(Marker), Len(ln))

\* C22: the argument text handed to parseArgs is the whole remainder of the
\* directive line after the marker, whatever bytes it holds.
C22_WholeRemainder ==
    \A i \in Events("parse") : trace[i].s = AfterMarker(InLines[trace[i].n])

-----------------------------------------------------------------------------
(* C23 *)

StepKinds == <<"parse", "fetch", "extract", "write">>

\* the steps of the directive on line n, as indexes of the trace
StepsOf(n) == {i \in 1..Len(trace) : trace[i].n = n /\ trace[i].k # "echo"}

\* the arguments of the directive on line n, as they were handed to parseArgs
ArgsOf(n) == parseArgs(trace[CHOOSE i \in Events("parse") : trace[i].n = n].s)

\* C23: the steps of a directive are, in this order, parse, fetch, extract
\* and write, and a failing step is the last: malformed arguments cause no
\* fetch, a failed fetch no extraction, a failed extraction no write, and the
\* output holds no byte of a block for a directive that failed.
C23_StepOrder ==
    pc \in {"process", "return"} =>
        /\ Out = TraceBytes(Len(trace))
        /\ \A n \in LinesAt("parse") :
              LET idx == StepsOf(n)
                  lo  == CHOOSE i \in idx : \A j \in idx : i <= j
                  a   == ArgsOf(n)
                  r   == readContents(a.file)
              IN  /\ idx = lo..(lo + Cardinality(idx) - 1)
                  /\ Cardinality(idx) <= 4
                  /\ \A j \in 1..Cardinality(idx) : trace[lo + j - 1].k = StepKinds[j]
                  /\ trace[lo - 1] = Ev("echo", n, InLines[n])
                  /\ a.err # <<>> => Cardinality(idx) = 1
                  /\ (a.err = <<>> /\ r.err # <<>>) => Cardinality(idx) = 2
                  /\ (a.err = <<>> /\ r.err = <<>> /\ extract(r.b, a.start, a.end).err # <<>>)
                         => Cardinality(idx) = 3
                  /\ Cardinality(idx) < 4 =>
                         /\ perr.err # <<>> /\ perr.line = n
                         /\ lo + Cardinality(idx) - 1 = Len(trace)
                         /\ Out = TraceBytes(lo - 1)

\* the fetch of a directive failed after an earlier directive was executed:
\* nothing is extracted or written for it
C23_Witness ==
    /\ Returned
    /\ perr.err = <<"could not read", "status Not Found">>
    /\ Cardinality(StepsOf(perr.line)) = 2
    /\ Events("write") # {}

-----------------------------------------------------------------------------
(* C24 *)

\* the directives that failed: parsed, but no block written
FailedAt == LinesAt("parse") \ LinesAt("write")

\* C24: fetches are issued in document order, exactly one for each directive
\* whose arguments parse and none for any other line; once a directive has
\* failed no further line is read and nothing further is fetched.
C24_FetchOrder ==
    pc \in {"process", "return"} =>
        /\ \A i, j \in Events("fetch") : i < j => trace[i].n < trace[j].n
        /\ LinesAt("fetch") \subseteq LinesAt("parse")
        /\ \A n \in LinesAt("parse") :
              IF ArgsOf(n).err = <<>>
              THEN \E i \in Events("fetch") :
                      /\ trace[i].n = n /\ trace[i].s = ArgsOf(n).file
                      /\ \A j \in Events("fetch") : trace[j].n = n => j = i
              ELSE n \notin LinesAt("fetch")
        /\ \A n \in FailedAt :
              /\ \A i \in 1..Len(trace) : trace[i].n <= n
              /\ LinesRead = n

\* a directive failed after its fetch, with a line of the document unread
C24_Witness ==
    /\ Returned
    /\ FailedAt # {}
    /\ Cardinality(Events("fetch")) = 1
    /\ input # <<>>

-----------------------------------------------------------------------------
(* C25 *)

\* the block written for the directive on line n
BlockOf(n) == trace[CHOOSE i \in Events("write") : trace[i].n = n].s

\* the output from line j on: every line that is not replaced, followed by
\* its block when it is an executed directive
RECURSIVE Conserved(_)
Conserved(j) ==
    IF j > Len(InLines) THEN <<>>
    ELSE (IF Replaced(j) THEN <<>>
          ELSE InLines[j] \o <<LF>>
               \o (IF j \in LinesAt("write") THEN BlockOf(j) ELSE <<>>))
         \o Conserved(j + 1)

\* C25: line conservation.  The output of a successful run is the input,
\* line by line and in order, without the lines of the fenced blocks that
\* directly follow an executed directive and with the generated block right
\* after each executed directive line.
C25_LineConservation ==
    Succeeded => Out = Conserved(1)

\* a block of four lines after a directive is replaced by one of two
C25_Witness ==
    /\ Succeeded
    /\ Cardinality({j \in 1..Len(InLines) : Replaced(j)}) = 4
    /\ Out = Lines(<<TextLine, DirE, Fence \o <<"g", "o">>, Fence>>)

-----------------------------------------------------------------------------
(* C26 *)

\* embed on standard input, running on: a step that can be taken is taken
InitLive ==
    /\ pc = "embed" /\ cur = 1 /\ stdout = <<>> /\ pass = 1 /\ first = <<>>
    /\ rewrite = FALSE /\ paths = <<>> /\ disk = NoDisk
    /\ stdin \in StdinDocs
    /\ Idle
    /\ NoDiff
    /\ NoCall

NextLive ==
    \/ embed
    \/ process
    \/ parsingText
    \/ parsingCmd
    \/ codeParser_parse
    \/ return

\* parsingCmd is enabled exactly when process is about to run it: past this
\* guard the action only assigns
parsingCmdEnabled == pc = "process" /\ state = St("parsingCmd", FALSE)

\* weak fairness of parsingCmd, with its enabling condition written out
parsingCmdFair == []<>(~parsingCmdEnabled) \/ []<><<parsingCmd>>_vars

\* the program is sequential and keeps running: whichever step is next is
\* taken
SpecLive ==
    /\ InitLive /\ [][NextLive]_vars
    /\ WF_vars(embed) /\ WF_vars(process) /\ WF_vars(parsingText)
    /\ WF_vars(codeParser_parse) /\ WF_vars(return)
    /\ parsingCmdFair

\* the lines not yet read
Unread == Len(ScanAll(input))

\* a step of process ends the run or reads at least one line; what it reads
\* is the head of the unread input, which it never reads again, and the
\* count of the lines grows by the lines read
StepReads ==
    pc = "process" =>
        /\ \E k \in 0..Len(input) : input' = Slice(input, k, Len(input))
        /\ line' - line = Len(ScanAll(input)) - Len(ScanAll(input'))
        /\ line' <= Len(ScanAll(orig))
        /\ pc' = "return" \/ (pc' = "process" /\ line' > line)

\* C26: processing a finite document terminates.  Every step of process ends
\* the run or reads at least one further line, no line is read twice, and
\* the call of process returns and the run ends.
C26_Terminates ==
    /\ [][StepReads]_vars
    /\ <>(pc = "done")

\* a run over a document of four lines has returned with all of them read
C26_Witness ==
    /\ Returned
    /\ Len(InLines) = 4
    /\ line = 4 /\ input = <<>>

-----------------------------------------------------------------------------
(* C27 *)

\* processFile has processed paths[cur] without error and was asked to
\* rewrite it
Rewrites(p) ==
    /\ pc = "return" /\ paths # <<>> /\ rewrite /\ perr = NoErr
    /\ p = paths[cur]

\* C27: a step changes the content of a file only when processFile rewrites
\* it, and then the file holds exactly the processed output, whatever its
\* length was; when processing fails, when the path is not a .md file and
\* when rewrite is not requested every file stays as it is.
C27_FileContent ==
    [][/\ DOMAIN disk' = DOMAIN disk
       /\ \A p \in DOMAIN disk :
             disk'[p] = IF Rewrites(p) THEN buf ELSE disk[p]]_vars

\* the first file was rewritten with an output shorter than its content
C27_Witness ==
    /\ rewrite /\ pc = "embed" /\ cur = 2
    /\ disk[paths[1]] = buf
    /\ Len(buf) < Len(orig)

-----------------------------------------------------------------------------
(* C28 *)

\* the output for lines j to n: every line that is not replaced, followed by
\* its block when it is an executed directive
RECURSIVE ConservedTo(_, _)
ConservedTo(j, n) ==
    IF j > n THEN <<>>
    ELSE (IF Replaced(j) THEN <<>>
          ELSE InLines[j] \o <<LF>>
               \o (IF j \in LinesAt("write") THEN BlockOf(j) ELSE <<>>))
         \o ConservedTo(j + 1, n)

\* process has returned an error for the document on standard input
StdinFailed == paths = <<>> /\ Returned /\ perr # NoErr

-----------------------------------------------------------------------------
(* embed with the -d flag *)

\* the documents of the runs with -d: two that are up to date (one without
\* directive, one whose block is what e.go holds), one whose block is
\* missing, one whose directive fails
DiffDocs ==
    { Lines(<<TextLine>>),
      Lines(<<TextLine, DirE, Fence \o <<"g", "o">>, Fence>>),
      Lines(<<TextLine, DirE>>),
      Lines(<<TextLine, DirB>>) }

InitDiff ==
    /\ pc = "embed" /\ cur = 1 /\ stdout = <<>> /\ pass = 1 /\ first = <<>>
    /\ rewrite \in BOOLEAN
    /\ doDiff \in BOOLEAN
    /\ foundDiff = FALSE /\ status = 0
    /\ \/ /\ paths = <<>>
          /\ stdin \in DiffDocs
          /\ disk = NoDisk
       \/ /\ paths \in SeqsUpTo(PathNames, MaxPaths) \ {<<>>}
          /\ stdin = <<>>
          /\ disk \in {d @@ (NTxt :> Lines(<<TextLine>>)) : d \in [{FMd, GMd} -> DiffDocs]}
    /\ Idle
    /\ NoCall

\* every line of ls behind the mark m
RECURSIVE Marked(_, _)
Marked(m, ls) ==
    IF ls = <<>> THEN <<>>
    ELSE <<m>> \o Head(ls) \o <<LF>> \o Marked(m, Tail(ls))

\* diff: what diff -u prints for the two files without its two header lines,
\* nothing when they are equal; the hunk is taken to be the whole of b1
\* removed and the whole of b2 added
diff(b1, b2) ==
    IF b1 = b2 THEN <<>>
    ELSE <<"@", "@", LF>> \o Marked("-", ScanAll(b1)) \o Marked("+", ScanAll(b2))

\* embed returns to main
Returns(d, e) == foundDiff' = d /\ result' = e /\ pc' = "main"

\* embed up to the call of Process or processFile, or to its return
embedDiff ==
    /\ pc = "embed"
    /\ IF rewrite /\ doDiff
       THEN /\ Returns(FALSE, Result(<<>>, [line |-> 0,
                        err |-> <<"error: cannot use -w and -d simulatenously">>]))
            /\ UNCHANGED <<orig, input, text, line, state, buf, perr, trace>>
       ELSE IF paths = <<>>
       THEN IF rewrite
            THEN /\ Returns(FALSE, Result(<<>>, [line |-> 0,
                        err |-> <<"error: cannot use -w with standard input">>]))
                 /\ UNCHANGED <<orig, input, text, line, state, buf, perr, trace>>
            ELSE /\ Enter(stdin)
                 /\ UNCHANGED <<result, foundDiff>>
       ELSE IF cur > Len(paths)
       THEN /\ Returns(doDiff, NoResult)
            /\ UNCHANGED <<orig, input, text, line, state, buf, perr, trace>>
       ELSE /\ pc' = "processFile"
            /\ UNCHANGED <<result, foundDiff, orig, input, text, line, state, buf,
                           perr, trace>>
    /\ UNCHANGED <<paths, rewrite, disk, stdin, stdout, cur, pass, first, call, ret,
                   doDiff, status>>

\* processFile up to the call of Process
processFileDiff ==
    /\ pc = "processFile"
    /\ IF Ext(paths[cur]) # <<".", "m", "d">>
       THEN /\ Returns(FALSE, Result(paths[cur],
                        [line |-> 0, err |-> <<"not a markdown file">>]))
            /\ UNCHANGED <<orig, input, text, line, state, buf, perr, trace>>
       ELSE IF paths[cur] \notin DOMAIN disk
       THEN /\ Returns(FALSE, Result(paths[cur],
                        [line |-> 0, err |-> <<"file does not exist">>]))
            /\ UNCHANGED <<orig, input, text, line, state, buf, perr, trace>>
       ELSE /\ Enter(disk[paths[cur]])
            /\ UNCHANGED <<result, foundDiff>>
    /\ UNCHANGED <<paths, rewrite, disk, stdin, stdout, cur, pass, first, call, ret,
                   doDiff, status>>

\* Process has returned: the rest of processFile and embed's loop, or the
\* rest of embed on standard input.  embed keeps the result of each file in
\* its parameter doDiff.
returnDiff ==
    /\ pc = "return"
    /\ IF perr # NoErr
       THEN /\ Returns(FALSE, Result(IF paths = <<>> THEN <<>> ELSE paths[cur], perr))
            /\ UNCHANGED <<disk, stdout, cur, doDiff>>
       ELSE IF paths = <<>>
       THEN LET d == IF doDiff THEN diff(orig, buf) ELSE <<>> IN
            /\ stdout' = stdout \o d
            /\ Returns(d # <<>>, NoResult)
            /\ UNCHANGED <<disk, cur, doDiff>>
       ELSE LET d == IF doDiff THEN diff(disk[paths[cur]], buf) ELSE <<>> IN
            /\ IF doDiff
               THEN stdout' = stdout \o d /\ disk' = disk
               ELSE IF rewrite
               THEN /\ disk' = [disk EXCEPT ![paths[cur]] =
                                    Truncate(WriteAt(@, buf, 0), Len(buf))]
                    /\ stdout' = stdout
               ELSE stdout' = stdout \o buf /\ disk' = disk
            /\ doDiff' = (doDiff \/ d # <<>>)
            /\ cur' = cur + 1
            /\ pc' = "embed"
            /\ UNCHANGED <<result, foundDiff>>
    /\ UNCHANGED <<paths, rewrite, stdin, orig, input, text, line, state, buf, perr,
                   trace, pass, first, call, ret, status>>

\* main after embed: exit status 2 on an error or on a difference with -d
main ==
    /\ pc = "main"
    /\ status' = IF result.err # <<>> THEN 2
                 ELSE IF foundDiff /\ doDiff THEN 2
                 ELSE 0
    /\ pc' = "exit"
    /\ UNCHANGED <<paths, rewrite, disk, stdin, stdout, cur, orig, input, text, line,
                   state, buf, perr, result, trace, pass, first, call, ret,
                   doDiff, foundDiff>>

NextDiff ==
    \/ embedDiff
    \/ processFileDiff
    \/ process
    \/ parsingText
    \/ parsingCmd
    \/ codeParser_parse
    \/ returnDiff
    \/ main

SpecDiff == InitDiff /\ [][NextDiff]_vars

-----------------------------------------------------------------------------
(* C29 *)

\* with -d nothing but differences is printed: a step prints exactly when it
\* ends a successful run whose output is not what the document holds
DiffPrinted ==
    [][doDiff => (stdout' # stdout <=>
                    /\ pc = "return" /\ perr = NoErr
                    /\ buf # orig)]_vars

\* some document differed from its processed output
Differed == stdout # <<>>

\* C29: with -d, embed reports that a difference was found, and the program
\* exits with status 2 without an error, only when the processed output of
\* at least one document differs from what the document holds; when every
\* document is up to date no difference is reported.
C29_DiffOnlyWhenDifferent ==
    (pc = "exit" /\ doDiff /\ result.err = <<>>) =>
        /\ foundDiff => Differed
        /\ status = 2 => Differed

-----------------------------------------------------------------------------
(* C30 *)

\* extract has returned content for a start and an end that are patterns
BothPatterns ==
    /\ pc = "returnedExtract" /\ call.start # <<>> /\ call.end # <<>>
    /\ IsPattern(call.start[1]) /\ IsPattern(call.end[1])
    /\ ret.err = <<>>

\* the first match of the start pattern in the source
StartMatch == FirstMatch(call.start[1], call.b)

\* C30 as stated: with start and end both present as patterns, the extracted
\* text contains the complete text matched by the start pattern: the end of
\* the result never lies before the end of the start match.
C30_ContainsStartMatch ==
    BothPatterns =>
        /\ Len(ret.b) >= StartMatch[2] - StartMatch[1]
        /\ Slice(ret.b, 0, StartMatch[2] - StartMatch[1])
              = Slice(call.b, StartMatch[1], StartMatch[2])

\* C30 amended: with start and end both present as patterns, the end pattern
\* is searched from the first byte of the start match, so the extracted text
\* always contains the complete text of that end match and stops with it; it
\* contains the complete start match when the end match does not stop before
\* the start match does, and is a proper prefix of the start match otherwise.
C30_ContainsEndMatch ==
    BothPatterns =>
        LET rest == Slice(call.b, StartMatch[1], Len(call.b))
            e    == FirstMatch(call.end[1], rest)
            n    == StartMatch[2] - StartMatch[1]
        IN  /\ e # <<>>
            /\ Len(ret.b) = e[2]
            /\ Slice(ret.b, e[1], e[2]) = Slice(rest, e[1], e[2])
            /\ IF e[2] >= n
               THEN Slice(ret.b, 0, n) = Slice(call.b, StartMatch[1], StartMatch[2])
               ELSE /\ Len(ret.b) < n
                    /\ ret.b = Slice(call.b, StartMatch[1], StartMatch[1] + e[2])

\* on the source xy, from /xy/ to /x/ is x: less than the start match
C30_Witness ==
    /\ pc = "returnedExtract"
    /\ call = [b |-> <<"x", "y">>, start |-> <<<<"/", "x", "y", "/">>>>,
               end |-> <<<<"/", "x", "/">>>>]
    /\ ret = [b |-> <<"x">>, err |-> <<>>]

====
